---- MODULE Spec2Model ----
(***************************************************************************)
(* PongOn: two processes, one started with -server and one with -client,   *)
(* each running main() of main.cpp.  Both revisions of main.cpp are        *)
(* modelled: src/src/main.cpp (chat, console-read thread, Close) and       *)
(* src/Source/main.cpp (velocity exchange inside update_velocities).       *)
(*                                                                         *)
(* Lengths are in 1/1000 pixel, so every float of the program that the     *)
(* model uses is an integer (8.8f is taken as exactly 8800).               *)
(* Strings are sequences of character codes.                               *)
(***************************************************************************)
EXTENDS Integers, Sequences, FiniteSets, TLC

\* ---------------------------------------------------------------- bounds
MaxFrames == 2
MaxFails == 1
MaxLines == 2

\* ------------------------------------------------------ program constants
kWinWidth == 512000
kWinHeight == 256000
kBallRadius == 10500
kBallVelocity == 2500
kPaddleWidth == 15000
kPaddleHeight == 60000
kPaddleVelocity == 8800
kNickCap == 10
kMsgCap == 50
kChatMax == 100
kChatFrom == 80
kChatKeep == 20

\* ------------------------------------------------------------- processes
Procs == {"srv", "cli"}

Other(p) == IF p = "srv" THEN "cli" ELSE "srv"

\* argv[1] of each process: its mode flag, an unknown flag, or none at all
Args(p) == {IF p = "srv" THEN "-server" ELSE "-client", "-bogus", "none"}

\* --------------------------------------------------------------- strings
\* an abs that returns its argument
AbsKeepsSign(x) == x

Abs(x) == IF x < 0 THEN -x ELSE x

\* a resize that cuts nothing
ResizeKeepsAll(s, n) == s

\* std::string::resize(n) when size() > n, and substr(0, n)
Resize(s, n) == IF Len(s) > n THEN SubSeq(s, 1, n) ELSE s

Chars(n) == [i \in 1..n |-> 96 + ((i - 1) % 26) + 1]

\* what the operator may type at the nickname prompt (never empty: the
\* prompt loops while the line is empty)
NickInputs(p) == IF p = "srv" THEN {<<83>>, Chars(kNickCap + 1)} ELSE {<<67, 76>>}

\* the nicknames of a session in which the chat is followed
ChatNick(p) == IF p = "srv" THEN <<83>> ELSE <<67, 76>>

\* what the operator may type on the console during the game
LineInputs == {<<104, 105>>, Chars(kMsgCap + 1)}

\* the stdin thread's filter: "", " ", "\n", "\t", "\0" are not stored
IsBlank(s) == s \in {<<>>, <<32>>, <<10>>, <<9>>}

\* local_nick + ":> " + sending_msg
FmtMsg(nick, msg) == nick \o <<58, 62, 32>> \o msg

\* ------------------------------------------------------ the byte stream
\* The TCP stream is a sequence of units: a 4-byte word (the size header of
\* a packet, the length prefix of a string, a raw float) or a single byte
\* (a character of a string).
\* f is not on the wire: it records the frame of the sender in which the
\* unit was sent (0: the handshake)
Word(k, v, f) == [k |-> k, v |-> v, f |-> f]

UnitBytes(u) == IF u.k = "chr" THEN 1 ELSE 4

RECURSIVE ByteSize(_)
ByteSize(us) == IF us = <<>> THEN 0 ELSE UnitBytes(Head(us)) + ByteSize(Tail(us))

\* sf::Packet << std::string : Uint32 length, then the bytes
PacketOfString(s, f) ==
    <<Word("len", Len(s), f)>> \o [i \in 1..Len(s) |-> Word("chr", s[i], f)]

\* a default-constructed sf::Packet
EmptyPacket == <<>>

\* TcpSocket::send(Packet&): Uint32 size of the data, then the data
WireOfPacket(data, f) == <<Word("hdr", ByteSize(data), f)>> \o data

\* socket.send(&sending, sizeof(float))
WireOfFloat(v, f) == <<Word("f32", v, f)>>

\* the nonzero float whose bits are a nonzero integer word or character
\* bytes: far below the resolution of any position it is added to
TinyFloat == 1

\* a size no stream of a session ever supplies (the bits of a nonzero float
\* or of four characters read as a Uint32)
HugeSize == 1000000000

\* 4 received bytes read as a float
FloatOfUnit(u) == IF u.k = "f32" THEN u.v ELSE IF u.v = 0 THEN 0 ELSE TinyFloat

\* 4 received bytes read as a Uint32
SizeOfUnit(u) ==
    IF u.k \in {"hdr", "len"} THEN u.v
    ELSE IF u.k = "f32" /\ u.v = 0 THEN 0
    ELSE HugeSize

\* the shortest prefix of us holding at least n bytes (all of us if none)
RECURSIVE TakeBytes(_, _)
TakeBytes(us, n) ==
    IF n <= 0 \/ us = <<>> THEN <<>>
    ELSE <<Head(us)>> \o TakeBytes(Tail(us), n - UnitBytes(Head(us)))

\* sf::Packet >> std::string : read the length; the string is cleared and
\* filled only if the length is positive and that many bytes are left
StringOfPacket(data) ==
    IF data = <<>> THEN <<>>
    ELSE IF Head(data).k = "chr" THEN <<>>
    ELSE LET n == SizeOfUnit(Head(data))
             rest == Tail(data)
         IN IF n > 0 /\ ByteSize(rest) >= n
            THEN LET us == TakeBytes(rest, n)
                 IN [i \in 1..Len(us) |-> us[i].v]
            ELSE <<>>

\* TcpSocket::receive(Packet&) on the stream `us`: "wait" while the size
\* header or the announced data are not there yet, else the packet's data
\* and the number of units consumed
RecvPacket(us) ==
    IF us = <<>> THEN [st |-> "wait", data |-> <<>>, n |-> 0]
    ELSE LET size == IF Head(us).k = "chr"
                     THEN (IF Len(us) >= 4 THEN HugeSize ELSE -1)
                     ELSE SizeOfUnit(Head(us))
             hd == IF Head(us).k = "chr" THEN 4 ELSE 1
             rest == SubSeq(us, hd + 1, Len(us))
         IN IF size < 0 \/ ByteSize(rest) < size
            THEN [st |-> "wait", data |-> <<>>, n |-> 0]
            ELSE LET d == TakeBytes(rest, size)
                 IN [st |-> "done", data |-> d, n |-> hd + Len(d)]

\* the chr units at the head of us, at most n of them
RECURSIVE LeadChars(_, _)
LeadChars(us, n) ==
    IF n = 0 \/ us = <<>> \/ Head(us).k # "chr" THEN 0
    ELSE 1 + LeadChars(Tail(us), n - 1)

\* TcpSocket::receive(buffer, 4, received) on the stream `us`
RecvFloat(us) ==
    IF us = <<>> THEN [st |-> "wait", v |-> 0, n |-> 0]
    ELSE IF Head(us).k = "chr"
         THEN [st |-> "done", v |-> TinyFloat, n |-> LeadChars(us, 4)]
         ELSE [st |-> "done", v |-> FloatOfUnit(Head(us)), n |-> 1]

\* the frame and kind of the unit a receive took first (not program state)
Origin(us) == [k |-> Head(us).k, f |-> Head(us).f]

\* ------------------------------------------------------------- physics
\* a box that takes the shape's position for its top left corner
BoxOfCorner(c, width, height) ==
    [right |-> c[1] + width, left |-> c[1], bottom |-> c[2] + height, top |-> c[2]]

\* the lambda `update` of update_positions: a shape's box from its centre
BoxOf(c, width, height) ==
    [right |-> c[1] + width \div 2, left |-> c[1] - width \div 2,
     bottom |-> c[2] + height \div 2, top |-> c[2] - height \div 2]

update_positions(shapes) ==
    [ball |-> BoxOf(shapes.ball, kBallRadius, kBallRadius),
     local |-> BoxOf(shapes.local, kPaddleWidth, kPaddleHeight),
     remote |-> BoxOf(shapes.remote, kPaddleWidth, kPaddleHeight)]

\* a collision test that does not count boxes that only touch
collidedInside(ballpos, paddle) ==
    /\ ballpos.right > paddle.left /\ ballpos.left < paddle.right
    /\ ballpos.bottom > paddle.top /\ ballpos.top < paddle.bottom

\* the lambda `collided` of update_velocities
collided(ballpos, paddle) ==
    /\ ballpos.right >= paddle.left /\ ballpos.left <= paddle.right
    /\ ballpos.bottom >= paddle.top /\ ballpos.top <= paddle.bottom

\* an update_velocities that changes nothing
update_velocities_Nothing(positions, v) == v

\* an update_velocities that stops the paddle only once it is past a wall
update_velocities_PastWall(positions, v) ==
    LET pos == positions.local
        loc == IF v.local < 0 /\ pos.top < 0 THEN 0
               ELSE IF v.local > 0 /\ pos.bottom > kWinHeight THEN 0
               ELSE v.local
    IN [ball |-> v.ball, local |-> loc, remote |-> v.remote]

\* update_velocities without the exchange that Source/main.cpp ends it with
update_velocities(positions, v) ==
    LET ballpos == positions.ball
        hit == collided(ballpos, positions.local) \/ collided(ballpos, positions.remote)
        bx == IF hit THEN -v.ball[1]
              ELSE IF ballpos.left < 0 THEN Abs(v.ball[1])
              ELSE IF ballpos.right > kWinWidth THEN -Abs(v.ball[1])
              ELSE v.ball[1]
        by == IF hit THEN v.ball[2]
              ELSE IF ballpos.top < 0 THEN Abs(v.ball[2])
              ELSE IF ballpos.bottom > kWinHeight THEN -Abs(v.ball[2])
              ELSE v.ball[2]
        pos == positions.local
        loc == IF v.local # 0 /\ v.local < 0 /\ pos.top <= 0 THEN 0
               ELSE IF v.local # 0 /\ v.local > 0 /\ pos.bottom >= kWinHeight THEN 0
               ELSE v.local
    IN [ball |-> <<bx, by>>, local |-> loc, remote |-> v.remote]

\* float addition of a velocity to a coordinate
AddFloat(c, v) == IF v = TinyFloat THEN c ELSE c + v

update_shapes(v, shapes) ==
    [ball |-> IF v.ball # <<0, 0>>
              THEN <<shapes.ball[1] + v.ball[1], shapes.ball[2] + v.ball[2]>>
              ELSE shapes.ball,
     local |-> IF v.local # 0
               THEN <<shapes.local[1], shapes.local[2] + v.local>>
               ELSE shapes.local,
     remote |-> IF v.remote # 0
                THEN <<shapes.remote[1], AddFloat(shapes.remote[2], v.remote)>>
                ELSE shapes.remote]

process_input(code, pressed, v) ==
    [v EXCEPT !.local = IF pressed
                        THEN (CASE code = "W" -> -kPaddleVelocity
                                [] code = "S" -> kPaddleVelocity
                                [] OTHER -> 0)
                        ELSE 0]

\* struct Velocities' member initialisers
InitVelocities == [ball |-> <<kBallVelocity, kBallVelocity \div 4>>, local |-> 0, remote |-> 0]

\* Ball(), Paddle() and set_initial_positions
InitShapes(server) ==
    LET middleScreen == kWinHeight \div 2
        left == kPaddleWidth \div 2
        right == kWinWidth - kPaddleWidth \div 2
    IN [ball |-> <<kWinWidth \div 2, kWinHeight \div 2>>,
        local |-> IF server THEN <<left, middleScreen>> ELSE <<right, middleScreen>>,
        remote |-> IF server THEN <<right, middleScreen>> ELSE <<left, middleScreen>>]

\* ---------------------------------------------------------------- chat log
\* a PrintChat that never truncates
PrintChatKeepsAll(msgs) == msgs

\* Connection::PrintChat's change of chat_msgs: at 100 entries or more, move
\* [begin+80, end) to the front and erase everything from begin+20
PrintChat(msgs) ==
    IF Len(msgs) >= kChatMax
    THEN LET moved == [i \in 1..Len(msgs) |->
                          IF i <= Len(msgs) - kChatFrom THEN msgs[kChatFrom + i] ELSE msgs[i]]
         IN SubSeq(moved, 1, kChatKeep)
    ELSE msgs

\* ------------------------------------------------------------- exchange
\* an ExchangeFun in which the client sends first as well
ExchangeFunBothSend(server) == <<"send", "recv">>

\* Connection::ExchangeFun: the order of the two operations of an exchange
ExchangeFun(server) == IF server THEN <<"send", "recv">> ELSE <<"recv", "send">>

\* ----------------------------------------------------------------- state
VARIABLES
    rev,          \* which main.cpp both processes run: "src" or "Source"
    typer,        \* the process whose operator uses the chat, or "nobody"
    errs,         \* the exchanges in which a socket call may return Error
    sync,         \* TRUE: a send blocks until the peer has received it
    pc,           \* where each process's main thread is
    res,          \* the bool the last Exchange call returned
    wait,         \* a blocking send is in progress
    absorbing,    \* a packet receive has read a size the stream cannot fill
    arg,          \* argv[1]
    exitCode,     \* main's return value
    cause,        \* why main returned
    is_server, is_running, local_nick, remote_nick,
    sending_msg, chat_msgs, status,
    send_pack, receive_pack, old_size,   \* locals of Init and UpdateChat
    window,       \* window.isOpen()
    vel, shp,     \* main's Velocities and Shapes (centres)
    frame,        \* iterations of the frame loop begun
    tpc,          \* where the stdin_updater thread is
    stdin,        \* console lines typed and not yet read
    typed,        \* console lines typed since the connection
    chan,         \* chan[p]: bytes p has sent that its peer has not received
    closed,       \* p's socket is closed (disconnect, or process exit)
    listening, connected,
    fails,        \* operations that returned sf::Socket::Error so far
    xlog,         \* the socket operations of p's current Exchange call
    failed,       \* an operation of a per-frame exchange of p has failed
    exAfter,      \* p has begun a per-frame exchange after such a failure
    frAfter,      \* p has gone on with its frame after such a failure
    sentv,        \* the velocity p passed to each frame's exchange
    takeLog,      \* the socket.receive calls of p that returned Done: exchange
                  \* and frame
    gotv,         \* the velocities p has received, and the frame each was sent in
    typedLog,     \* the non-blank lines typed on p's console
    takenLog,     \* the lines UpdateChat has taken from the slot, with the frame
                  \* and the result of the chat exchange of that frame
    slotLate,     \* the line in the slot was typed while a line was pending
    handed,       \* UpdateChat's packet has been passed to socket.send
    sendLog,      \* the socket.send calls p has made: exchange and frame
    recvLog,      \* the lines p has appended from its peer
    bench         \* the inputs and results of a function applied on its own
                  \* (NoBench in a session of two processes)

confv == <<rev, sync, typer, errs, bench>>
ctlv == <<pc, res, wait, absorbing>>
mainv == <<arg, exitCode, cause>>
connv == <<is_server, is_running, local_nick, remote_nick, status>>
chatv == <<sending_msg, chat_msgs, send_pack, receive_pack, old_size>>
gamev == <<window, vel, shp, frame>>
thrv == <<tpc, stdin, typed>>
netv == <<chan, closed, listening, connected, fails>>
hnetv == <<xlog, failed, exAfter, frAfter, sentv, gotv, takeLog>>
hchatv == <<typedLog, takenLog, slotLate, handed, sendLog, recvLog>>

vars == <<confv, ctlv, mainv, connv, chatv, gamev, thrv, netv, hnetv, hchatv>>

Revisions == {"src", "Source"}

NoBench == [fn |-> "none"]

Constructed ==
    /\ pc = [p \in Procs |-> "start"]
    /\ res = [p \in Procs |-> TRUE]
    /\ wait = [p \in Procs |-> FALSE]
    /\ absorbing = [p \in Procs |-> FALSE]
    /\ arg = [p \in Procs |-> "none"]
    /\ exitCode = [p \in Procs |-> "none"]
    /\ cause = [p \in Procs |-> "none"]
    /\ is_server = [p \in Procs |-> FALSE]
    /\ is_running = [p \in Procs |-> FALSE]
    /\ local_nick = [p \in Procs |-> <<>>]
    /\ remote_nick = [p \in Procs |-> <<>>]
    /\ status = [p \in Procs |-> "Done"]
    /\ sending_msg = [p \in Procs |-> <<>>]
    /\ chat_msgs = [p \in Procs |-> <<>>]
    /\ send_pack = [p \in Procs |-> EmptyPacket]
    /\ receive_pack = [p \in Procs |-> EmptyPacket]
    /\ old_size = [p \in Procs |-> 0]
    /\ window = [p \in Procs |-> TRUE]
    /\ vel = [p \in Procs |-> InitVelocities]
    /\ shp = [p \in Procs |-> InitShapes(FALSE)]
    /\ frame = [p \in Procs |-> 0]
    /\ tpc = [p \in Procs |-> "none"]
    /\ stdin = [p \in Procs |-> <<>>]
    /\ typed = 0
    /\ chan = [p \in Procs |-> <<>>]
    /\ closed = [p \in Procs |-> FALSE]
    /\ listening = FALSE
    /\ connected = FALSE
    /\ fails = 0
    /\ xlog = [p \in Procs |-> <<>>]
    /\ failed = [p \in Procs |-> FALSE]
    /\ exAfter = [p \in Procs |-> FALSE]
    /\ frAfter = [p \in Procs |-> FALSE]
    /\ sentv = [p \in Procs |-> <<>>]
    /\ gotv = [p \in Procs |-> <<>>]
    /\ takeLog = [p \in Procs |-> <<>>]
    /\ typedLog = [p \in Procs |-> <<>>]
    /\ takenLog = [p \in Procs |-> <<>>]
    /\ slotLate = [p \in Procs |-> FALSE]
    /\ handed = [p \in Procs |-> FALSE]
    /\ sendLog = [p \in Procs |-> <<>>]
    /\ recvLog = [p \in Procs |-> <<>>]

\* sessions of either revision in which nobody types a chat line
Init ==
    /\ rev \in Revisions
    /\ sync \in BOOLEAN
    /\ typer = "nobody"
    /\ errs = {"hs", "chat", "vel"}
    /\ bench = NoBench
    /\ Constructed

\* sessions of src/main.cpp in which one operator types chat lines
InitChat ==
    /\ rev = "src"
    /\ sync \in BOOLEAN
    /\ typer \in Procs
    /\ errs = {"chat"}
    /\ bench = NoBench
    /\ Constructed

\* sessions of src/main.cpp in which one operator types chat lines and a
\* socket call fails only when the peer has gone
InitSlot ==
    /\ rev = "src"
    /\ sync \in BOOLEAN
    /\ typer \in Procs
    /\ errs = {}
    /\ bench = NoBench
    /\ Constructed

Chatting == typer # "nobody"

\* a function applied on its own: no process has started, no session runs
Alone ==
    /\ rev = "src"
    /\ sync = FALSE
    /\ typer = "nobody"
    /\ errs = {}
    /\ Constructed

sessv == <<rev, sync, typer, errs, ctlv, mainv, connv, chatv, gamev, thrv, netv, hnetv, hchatv>>

\* --------------------------------------------------------------- helpers
OpPcs == {"hs1", "hs2", "chat1", "chat2", "vel1", "vel2"}

Ctx(p) ==
    CASE pc[p] \in {"hs1", "hs2"} -> "hs"
      [] pc[p] \in {"chat1", "chat2"} -> "chat"
      [] pc[p] \in {"vel1", "vel2"} -> "vel"
      [] OTHER -> "none"

OpNo(p) == IF pc[p] \in {"hs1", "chat1", "vel1"} THEN 1 ELSE 2

\* the operation the Exchange call of p is at
CurOp(p) == IF pc[p] \in OpPcs THEN ExchangeFun(is_server[p])[OpNo(p)] ELSE "none"

\* Connection::ExchangeFun's && : the second operation runs only if the
\* first returned true; then the call returns
After(p, ok) ==
    IF ok /\ OpNo(p) = 1
    THEN (CASE Ctx(p) = "hs" -> "hs2" [] Ctx(p) = "chat" -> "chat2" [] OTHER -> "vel2")
    ELSE (CASE Ctx(p) = "hs" -> "hsdone" [] Ctx(p) = "chat" -> "chatdone" [] OTHER -> "veldone")

\* Connection::Send / Connection::Receive: status = ...; return status == Done
Returned(p, st) ==
    /\ pc' = [pc EXCEPT ![p] = After(p, st = "Done")]
    /\ res' = [res EXCEPT ![p] = (st = "Done")]
    /\ status' = [status EXCEPT ![p] = st]
    /\ failed' = [failed EXCEPT ![p] = @ \/ (st # "Done" /\ Ctx(p) # "hs")]

\* the bytes the send lambda of the current Exchange call passes to the socket
Payload(p) ==
    IF Ctx(p) = "vel" THEN WireOfFloat(vel[p].local, frame[p])
    ELSE WireOfPacket(send_pack[p], frame[p])

\* a main that reports a transport error in its exit code
LoopReturnByCause(why) == IF why = "transport" THEN "FAILURE" ELSE "SUCCESS"

\* main's return after the frame loop, whatever ended the loop
LoopReturn(why) == "SUCCESS"

\* main returns: the process ends and the system closes its socket
Exit(p, code) ==
    /\ pc' = [pc EXCEPT ![p] = "exited"]
    /\ exitCode' = [exitCode EXCEPT ![p] = code]
    /\ closed' = [closed EXCEPT ![p] = TRUE]

\* --------------------------------------------------------------- startup
\* main's argument check, and Connection::Init up to the nickname
Start(p) ==
    /\ pc[p] = "start"
    /\ \E a \in Args(p) :
        /\ arg' = [arg EXCEPT ![p] = a]
        /\ IF a \in {"-server", "-client"}
           THEN \E n \in (IF Chatting THEN {ChatNick(p)} ELSE NickInputs(p)) :
                  /\ is_server' = [is_server EXCEPT ![p] = (a = "-server")]
                  /\ local_nick' = [local_nick EXCEPT ![p] = Resize(n, kNickCap)]
                  /\ pc' = [pc EXCEPT ![p] = IF a = "-server" THEN "listen" ELSE "connect"]
                  /\ UNCHANGED <<exitCode, cause, closed>>
           ELSE /\ Exit(p, "FAILURE")
                /\ cause' = [cause EXCEPT ![p] = IF a = "none" THEN "usage" ELSE "argument"]
                /\ UNCHANGED <<is_server, local_nick>>
    /\ is_running' = [is_running EXCEPT ![p] = FALSE]
    /\ UNCHANGED <<confv, res, wait, absorbing, remote_nick, status, chatv, gamev,
                   thrv, chan, listening, connected, fails, hnetv, hchatv>>

\* Connection::Init, server: listener.listen(kPort)
Listen(p) ==
    /\ pc[p] = "listen"
    /\ \/ /\ pc' = [pc EXCEPT ![p] = "accept"]
          /\ listening' = TRUE
          /\ UNCHANGED <<exitCode, cause, closed>>
       \/ /\ Exit(p, "FAILURE")
          /\ cause' = [cause EXCEPT ![p] = "listen"]
          /\ UNCHANGED listening
    /\ UNCHANGED <<confv, res, wait, absorbing, arg, connv, chatv, gamev, thrv,
                   chan, connected, fails, hnetv, hchatv>>

\* Connection::Init, server: listener.accept(socket), then the nickname
\* packet is filled
Accept(p) ==
    /\ pc[p] = "accept"
    /\ \/ /\ connected
          /\ pc' = [pc EXCEPT ![p] = "hs1"]
          /\ send_pack' = [send_pack EXCEPT ![p] = PacketOfString(local_nick[p], 0)]
          /\ receive_pack' = [receive_pack EXCEPT ![p] = EmptyPacket]
          /\ xlog' = [xlog EXCEPT ![p] = <<>>]
          /\ UNCHANGED <<exitCode, cause, closed>>
       \/ /\ Exit(p, "FAILURE")
          /\ cause' = [cause EXCEPT ![p] = "accept"]
          /\ UNCHANGED <<send_pack, receive_pack, xlog>>
    /\ listening' = FALSE
    /\ UNCHANGED <<confv, res, wait, absorbing, arg, connv, sending_msg, chat_msgs,
                   old_size, gamev, thrv, chan, connected, fails,
                   failed, exAfter, frAfter, sentv, gotv, takeLog, hchatv>>

\* Connection::Init, client: std::cin >> serverIp (which leaves the rest of
\* the line, an empty line, on the console), socket.connect, then the
\* nickname packet is filled
Connect(p) ==
    /\ pc[p] = "connect"
    /\ stdin' = [stdin EXCEPT ![p] = <<[s |-> <<>>, late |-> FALSE]>>]
    /\ \/ /\ listening /\ ~connected
          /\ connected' = TRUE
          /\ pc' = [pc EXCEPT ![p] = "hs1"]
          /\ send_pack' = [send_pack EXCEPT ![p] = PacketOfString(local_nick[p], 0)]
          /\ receive_pack' = [receive_pack EXCEPT ![p] = EmptyPacket]
          /\ xlog' = [xlog EXCEPT ![p] = <<>>]
          /\ UNCHANGED <<exitCode, cause, closed>>
       \/ /\ Exit(p, "FAILURE")
          /\ cause' = [cause EXCEPT ![p] = "connect"]
          /\ UNCHANGED <<connected, send_pack, receive_pack, xlog>>
    /\ UNCHANGED <<confv, res, wait, absorbing, arg, connv, sending_msg, chat_msgs,
                   old_size, gamev, tpc, typed, chan, listening, fails,
                   failed, exAfter, frAfter, sentv, gotv, takeLog, hchatv>>

\* ----------------------------------------------------- socket operations
\* socket.send returns Done: the bytes are on the stream.  On a blocking
\* (unbuffered) transport the call returns only when the peer has read them.
Send(p) ==
    /\ pc[p] \in OpPcs /\ CurOp(p) = "send" /\ ~wait[p]
    /\ ~closed[Other(p)] \/ ~sync
    /\ chan' = [chan EXCEPT ![p] = @ \o Payload(p)]
    /\ xlog' = [xlog EXCEPT ![p] = Append(@, "send")]
    /\ handed' = [handed EXCEPT ![p] = @ \/ Ctx(p) = "chat"]
    /\ sendLog' = [sendLog EXCEPT ![p] = Append(@, [ctx |-> Ctx(p), frame |-> frame[p]])]
    /\ IF sync
       THEN /\ wait' = [wait EXCEPT ![p] = TRUE]
            /\ UNCHANGED <<pc, res, status, failed>>
       ELSE /\ Returned(p, "Done")
            /\ UNCHANGED wait
    /\ UNCHANGED <<confv, absorbing, mainv, is_server, is_running, local_nick,
                   remote_nick, chatv, gamev, thrv, closed, listening, connected,
                   fails, exAfter, frAfter, sentv, gotv, takeLog,
                   typedLog, takenLog, slotLate, recvLog>>

\* a blocking send returns: the peer has read the bytes, or has gone
SendAck(p) ==
    /\ wait[p]
    /\ wait' = [wait EXCEPT ![p] = FALSE]
    /\ \/ /\ chan[p] = <<>>
          /\ Returned(p, "Done")
       \/ /\ chan[p] # <<>> /\ closed[Other(p)]
          /\ Returned(p, "Disconnected")
    /\ UNCHANGED <<confv, absorbing, mainv, is_server, is_running, local_nick,
                   remote_nick, chatv, gamev, thrv, netv, xlog, exAfter, frAfter,
                   sentv, gotv, takeLog, hchatv>>

\* socket.send returns a status other than Done: Disconnected when the peer
\* has closed, or Error
SendFail(p) ==
    /\ pc[p] \in OpPcs /\ CurOp(p) = "send" /\ ~wait[p]
    /\ \/ /\ closed[Other(p)]
          /\ Returned(p, "Disconnected")
          /\ UNCHANGED fails
       \/ /\ fails < MaxFails /\ Ctx(p) \in errs
          /\ fails' = fails + 1
          /\ Returned(p, "Error")
    /\ xlog' = [xlog EXCEPT ![p] = Append(@, "send")]
    /\ handed' = [handed EXCEPT ![p] = @ \/ Ctx(p) = "chat"]
    /\ sendLog' = [sendLog EXCEPT ![p] = Append(@, [ctx |-> Ctx(p), frame |-> frame[p]])]
    /\ UNCHANGED <<confv, wait, absorbing, mainv, is_server, is_running, local_nick,
                   remote_nick, chatv, gamev, thrv, chan, closed, listening,
                   connected, exAfter, frAfter, sentv, gotv, takeLog,
                   typedLog, takenLog, slotLate, recvLog>>

\* socket.receive returns Done: a packet (handshake, chat) or 4 raw bytes
\* (velocity) are taken from the head of the peer's stream
Recv(p) ==
    /\ pc[p] \in OpPcs /\ CurOp(p) = "recv" /\ ~absorbing[p]
    /\ IF Ctx(p) = "vel"
       THEN LET r == RecvFloat(chan[Other(p)])
            IN /\ r.st = "done"
               /\ chan' = [chan EXCEPT ![Other(p)] = SubSeq(@, r.n + 1, Len(@))]
               /\ vel' = [vel EXCEPT ![p].remote = r.v]
               /\ gotv' = [gotv EXCEPT ![p] =
                              Append(@, [frame |-> frame[p], v |-> r.v,
                                         from |-> Origin(chan[Other(p)])])]
               /\ UNCHANGED receive_pack
       ELSE LET r == RecvPacket(chan[Other(p)])
            IN /\ r.st = "done"
               /\ chan' = [chan EXCEPT ![Other(p)] = SubSeq(@, r.n + 1, Len(@))]
               /\ receive_pack' = [receive_pack EXCEPT ![p] = r.data]
               /\ UNCHANGED <<vel, gotv>>
    /\ xlog' = [xlog EXCEPT ![p] = Append(@, "recv")]
    /\ takeLog' = [takeLog EXCEPT ![p] = Append(@, [ctx |-> Ctx(p), frame |-> frame[p]])]
    /\ Returned(p, "Done")
    /\ UNCHANGED <<confv, wait, absorbing, mainv, is_server, is_running, local_nick,
                   remote_nick, sending_msg, chat_msgs, send_pack, old_size,
                   window, shp, frame, thrv, closed, listening, connected, fails,
                   exAfter, frAfter, sentv, hchatv>>

\* a packet receive whose size header announces more bytes than the stream
\* holds keeps reading what arrives and does not return
Absorb(p) ==
    /\ pc[p] \in OpPcs /\ CurOp(p) = "recv" /\ Ctx(p) # "vel"
    /\ chan[Other(p)] # <<>>
    /\ absorbing[p] \/ RecvPacket(chan[Other(p)]).st = "wait"
    /\ chan' = [chan EXCEPT ![Other(p)] = <<>>]
    /\ absorbing' = [absorbing EXCEPT ![p] = TRUE]
    /\ UNCHANGED <<confv, pc, res, wait, mainv, connv, chatv, gamev, thrv, closed,
                   listening, connected, fails, hnetv, hchatv>>

\* socket.receive returns a status other than Done: Disconnected when the
\* peer has closed and the stream holds no complete message, or Error
RecvFail(p) ==
    /\ pc[p] \in OpPcs /\ CurOp(p) = "recv"
    /\ \/ /\ closed[Other(p)]
          /\ \/ absorbing[p]
             \/ Ctx(p) = "vel" /\ RecvFloat(chan[Other(p)]).st = "wait"
             \/ Ctx(p) # "vel" /\ RecvPacket(chan[Other(p)]).st = "wait"
          /\ Returned(p, "Disconnected")
          /\ UNCHANGED fails
       \/ /\ fails < MaxFails /\ ~absorbing[p] /\ Ctx(p) \in errs
          /\ fails' = fails + 1
          /\ Returned(p, "Error")
    /\ absorbing' = [absorbing EXCEPT ![p] = FALSE]
    /\ xlog' = [xlog EXCEPT ![p] = Append(@, "recv")]
    /\ UNCHANGED <<confv, wait, mainv, is_server, is_running, local_nick,
                   remote_nick, chatv, gamev, thrv, chan, closed, listening,
                   connected, exAfter, frAfter, sentv, gotv, takeLog, hchatv>>

\* ------------------------------------------------------------- handshake
\* an Init that does not look at the result of the nickname exchange
InitReturnsTrue(p) == TRUE

\* if (!Exchange(send_pack, &receive_pack)) ... return false
InitReturns(p) == res[p]

\* the end of Connection::Init (src) / Connection::ExchangeNicks (Source),
\* and main up to the frame loop
HsDone(p) ==
    /\ pc[p] = "hsdone"
    /\ IF InitReturns(p)
       THEN /\ remote_nick' = [remote_nick EXCEPT ![p] = StringOfPacket(receive_pack[p])]
            /\ chat_msgs' = [chat_msgs EXCEPT ![p] = IF rev = "src" THEN PrintChat(@) ELSE @]
            /\ is_running' = [is_running EXCEPT ![p] = (rev = "src")]
            /\ tpc' = [tpc EXCEPT ![p] = IF rev = "src" THEN "check" ELSE "none"]
            /\ shp' = [shp EXCEPT ![p] = InitShapes(is_server[p])]
            /\ pc' = [pc EXCEPT ![p] = "loop"]
            /\ UNCHANGED <<exitCode, cause, closed>>
       ELSE /\ Exit(p, "FAILURE")
            /\ cause' = [cause EXCEPT ![p] = "handshake"]
            /\ UNCHANGED <<remote_nick, chat_msgs, is_running, tpc, shp>>
    /\ UNCHANGED <<confv, res, wait, absorbing, arg, is_server, local_nick, status,
                   sending_msg, send_pack, receive_pack, old_size, window, vel,
                   frame, stdin, typed, chan, listening, connected, fails,
                   hnetv, hchatv>>

\* ------------------------------------------------------------ frame loop
\* what one pass of the pollEvent loop may deliver
Events(p) ==
    IF Chatting THEN (IF p = "srv" THEN {"W", "Closed"} ELSE {"none", "Closed"})
    ELSE (IF p = "srv" THEN {"none", "W", "Closed"} ELSE {"none", "S", "release", "Closed"})

\* the switch on event.type in main
Polled(ev, v) ==
    CASE ev = "W" -> process_input("W", TRUE, v)
      [] ev = "S" -> process_input("S", TRUE, v)
      [] ev = "release" -> process_input("W", FALSE, v)
      [] OTHER -> v

\* while (window.isOpen()) and the event loop; in Source/main.cpp also
\* update_positions and update_velocities up to its Exchange call
LoopHead(p) ==
    /\ pc[p] = "loop"
    /\ IF ~window[p]
       THEN /\ cause' = [cause EXCEPT ![p] = "window"]
            /\ IF rev = "src"
               THEN /\ pc' = [pc EXCEPT ![p] = "close"]
                    /\ UNCHANGED <<exitCode, closed>>
               ELSE Exit(p, LoopReturn("window"))
            /\ UNCHANGED <<window, vel, frame, xlog, exAfter, sentv>>
       ELSE /\ \E ev \in Events(p) :
                 /\ frame[p] + 1 >= MaxFrames => ev = "Closed"
                 /\ window' = [window EXCEPT ![p] = (ev # "Closed")]
                 /\ vel' = [vel EXCEPT ![p] =
                               IF rev = "src" THEN Polled(ev, @)
                               ELSE update_velocities(update_positions(shp[p]), Polled(ev, @))]
            /\ frame' = [frame EXCEPT ![p] = @ + 1]
            /\ IF rev = "src"
               THEN /\ pc' = [pc EXCEPT ![p] = "uc"]
                    /\ UNCHANGED <<xlog, exAfter, sentv>>
               ELSE /\ pc' = [pc EXCEPT ![p] = "vel1"]
                    /\ xlog' = [xlog EXCEPT ![p] = <<>>]
                    /\ exAfter' = [exAfter EXCEPT ![p] = @ \/ failed[p]]
                    /\ sentv' = [sentv EXCEPT ![p] = Append(@, vel'[p].local)]
            /\ UNCHANGED <<exitCode, cause, closed>>
    /\ UNCHANGED <<confv, res, wait, absorbing, arg, connv, chatv, shp, thrv, chan,
                   listening, connected, fails, failed, frAfter, gotv, takeLog, hchatv>>

\* Connection::UpdateChat up to its Exchange call: a line in the slot is
\* cut to 50 bytes, tagged with the nickname, put into the packet and
\* appended to the log, and the slot is cleared; then the Exchange begins.
\* The thread does not write a slot that holds a line, so nothing
\* interleaves between the read of the slot and sending_msg = "".
UpdateChatTake(p) ==
    /\ pc[p] = "uc"
    /\ old_size' = [old_size EXCEPT ![p] = Len(chat_msgs[p])]
    /\ receive_pack' = [receive_pack EXCEPT ![p] = EmptyPacket]
    /\ handed' = [handed EXCEPT ![p] = FALSE]
    /\ IF sending_msg[p] # <<>>
       THEN LET msg == Resize(sending_msg[p], kMsgCap)
                fmt_msg == FmtMsg(local_nick[p], msg)
            IN /\ send_pack' = [send_pack EXCEPT ![p] = PacketOfString(fmt_msg, frame[p])]
               /\ chat_msgs' = [chat_msgs EXCEPT ![p] = Append(@, fmt_msg)]
               /\ takenLog' = [takenLog EXCEPT ![p] =
                                  Append(@, [frame |-> frame[p], line |-> sending_msg[p],
                                             fmt |-> fmt_msg, late |-> slotLate[p],
                                             sent |-> "pending"])]
       ELSE /\ send_pack' = [send_pack EXCEPT ![p] = EmptyPacket]
            /\ UNCHANGED <<chat_msgs, takenLog>>
    /\ sending_msg' = [sending_msg EXCEPT ![p] = <<>>]
    /\ slotLate' = [slotLate EXCEPT ![p] = FALSE]
    /\ pc' = [pc EXCEPT ![p] = "chat1"]
    /\ xlog' = [xlog EXCEPT ![p] = <<>>]
    /\ exAfter' = [exAfter EXCEPT ![p] = @ \/ failed[p]]
    /\ UNCHANGED <<confv, res, wait, absorbing, mainv, connv, gamev, thrv, netv,
                   failed, frAfter, sentv, gotv, takeLog, typedLog, sendLog, recvLog>>

\* Connection::UpdateChat after its Exchange call, whose result it drops;
\* then main's update_positions and update_velocities and the start of
\* the velocity Exchange call
ChatDone(p) ==
    /\ pc[p] = "chatdone"
    /\ LET receiving_msg == StringOfPacket(receive_pack[p])
           pushed == IF receiving_msg # <<>>
                     THEN Append(chat_msgs[p], receiving_msg) ELSE chat_msgs[p]
       IN /\ chat_msgs' = [chat_msgs EXCEPT ![p] =
                              IF old_size[p] # Len(pushed) THEN PrintChat(pushed) ELSE pushed]
          /\ recvLog' = [recvLog EXCEPT ![p] =
                            IF receiving_msg # <<>>
                            THEN Append(@, [frame |-> frame[p], msg |-> receiving_msg,
                                            from |-> Head(receive_pack[p]).f])
                            ELSE @]
    /\ takenLog' = [takenLog EXCEPT ![p] =
                       IF @ # <<>> /\ @[Len(@)].frame = frame[p]
                       THEN [@ EXCEPT ![Len(@)].sent = IF res[p] THEN "ok" ELSE "failed"]
                       ELSE @]
    /\ vel' = [vel EXCEPT ![p] = update_velocities(update_positions(shp[p]), @)]
    /\ pc' = [pc EXCEPT ![p] = "vel1"]
    /\ xlog' = [xlog EXCEPT ![p] = <<>>]
    /\ exAfter' = [exAfter EXCEPT ![p] = @ \/ failed[p]]
    /\ sentv' = [sentv EXCEPT ![p] = Append(@, vel'[p].local)]
    /\ UNCHANGED <<confv, res, wait, absorbing, mainv, connv, sending_msg, send_pack,
                   receive_pack, old_size, window, shp, frame, thrv, netv, failed,
                   frAfter, gotv, takeLog, typedLog, slotLate, handed,
                   sendLog>>

\* main after the velocity Exchange call: src/main.cpp breaks out of the
\* loop when it returned false; Source/main.cpp's update_velocities drops
\* the result.  Then update_shapes and the drawing.
VelDone(p) ==
    /\ pc[p] = "veldone"
    /\ IF rev = "src" /\ ~res[p]
       THEN /\ pc' = [pc EXCEPT ![p] = "close"]
            /\ cause' = [cause EXCEPT ![p] = "transport"]
            /\ UNCHANGED <<shp, frAfter>>
       ELSE /\ shp' = [shp EXCEPT ![p] = update_shapes(vel[p], @)]
            /\ pc' = [pc EXCEPT ![p] = "loop"]
            /\ frAfter' = [frAfter EXCEPT ![p] = @ \/ failed[p]]
            /\ UNCHANGED cause
    /\ UNCHANGED <<confv, res, wait, absorbing, arg, exitCode, connv, chatv, window,
                   vel, frame, thrv, netv, xlog, failed, exAfter, sentv, gotv, takeLog, hchatv>>

\* Connection::Close and main's return.  The thread was detached in Init,
\* so it is not joinable and Close does not wait for it.
Close(p) ==
    /\ pc[p] = "close"
    /\ is_running' = [is_running EXCEPT ![p] = FALSE]
    /\ tpc' = [tpc EXCEPT ![p] = "dead"]
    /\ Exit(p, LoopReturn(cause[p]))
    /\ UNCHANGED <<confv, res, wait, absorbing, arg, cause, is_server, local_nick,
                   remote_nick, status, chatv, gamev, stdin, typed, chan,
                   listening, connected, fails, hnetv, hchatv>>

\* ------------------------------------------------------ the stdin thread
\* The thread shares sending_msg and is_running with main.  Main reads the
\* slot at the start of UpdateChat and writes it right after; no other step
\* of main before Close touches either variable, so a step of the thread
\* or of the console commutes with every other step of main, and each
\* interleaving is equivalent to one in which these steps are taken while
\* main is about to call UpdateChat.  Only those interleavings are kept.
\* An access to the slot sees the value before or the value after a
\* concurrent store.
Observed(p) == pc[p] = "uc"

\* a thread that stores a line whatever the slot holds
SlotFreeAlways(p) == TRUE

\* if (sending_msg == "")
SlotFree(p) == sending_msg[p] = <<>>

\* while (is_running) { if (sending_msg == "") ...
ThreadCheck(p) ==
    /\ tpc[p] = "check" /\ Observed(p)
    /\ is_running[p] /\ SlotFree(p)
    /\ tpc' = [tpc EXCEPT ![p] = "getline"]
    /\ UNCHANGED <<confv, ctlv, mainv, connv, chatv, gamev, stdin, typed, netv,
                   hnetv, hchatv>>

\* std::getline(std::cin, aux_str) and the store into the slot
ThreadGetline(p) ==
    /\ tpc[p] = "getline" /\ Observed(p)
    /\ stdin[p] # <<>>
    /\ LET aux_str == Head(stdin[p])
       IN /\ stdin' = [stdin EXCEPT ![p] = Tail(@)]
          /\ IF ~IsBlank(aux_str.s)
             THEN /\ sending_msg' = [sending_msg EXCEPT ![p] = aux_str.s]
                  /\ slotLate' = [slotLate EXCEPT ![p] = aux_str.late]
             ELSE UNCHANGED <<sending_msg, slotLate>>
    /\ tpc' = [tpc EXCEPT ![p] = "check"]
    /\ UNCHANGED <<confv, ctlv, mainv, connv, chat_msgs, send_pack, receive_pack,
                   old_size, gamev, typed, netv, hnetv, typedLog, takenLog, handed, sendLog,
                   recvLog>>

\* the operator types a line on the console of p
TypeLine(p) ==
    /\ tpc[p] \in {"check", "getline"} /\ Observed(p)
    /\ p = typer /\ typed < MaxLines
    /\ \E l \in LineInputs :
         /\ stdin' = [stdin EXCEPT ![p] = Append(@, [s |-> l, late |-> sending_msg[p] # <<>>])]
         /\ typedLog' = [typedLog EXCEPT ![p] = IF IsBlank(l) THEN @ ELSE Append(@, l)]
    /\ typed' = typed + 1
    /\ UNCHANGED <<confv, ctlv, mainv, connv, chatv, gamev, tpc, netv, hnetv,
                   takenLog, slotLate, handed, sendLog,
                   recvLog>>

\* ------------------------------------------------------- specification
Step(p) ==
        \/ Start(p) \/ Listen(p) \/ Accept(p) \/ Connect(p)
        \/ Send(p) \/ SendAck(p) \/ SendFail(p)
        \/ Recv(p) \/ RecvFail(p)
        \/ HsDone(p) \/ LoopHead(p)
        \/ UpdateChatTake(p) \/ ChatDone(p)
        \/ VelDone(p) \/ Close(p)
        \/ ThreadCheck(p) \/ ThreadGetline(p)

Next == \E p \in Procs : Step(p) \/ Absorb(p)

Spec == Init /\ [][Next]_vars

\* every step a process can take it takes in the end: both processes and
\* their threads are scheduled, and a socket call that can return does
Scheduled == \A p \in Procs : WF_vars(Step(p) \/ Absorb(p))

FairSpec == Spec /\ Scheduled

NextChat == \E p \in Procs : Step(p) \/ Absorb(p) \/ TypeLine(p)

SpecChat == InitChat /\ [][NextChat]_vars

\* Where a socket call fails only when the peer has gone, no receive ever
\* meets bytes of another message (NeverOutOfStep below), so Absorb is
\* never enabled and is left out.
NextSlot == \E p \in Procs : Step(p) \/ TypeLine(p)

SpecSlot == InitSlot /\ [][NextSlot]_vars

\* what enables Absorb does not occur
NeverOutOfStep ==
    \A p \in Procs :
        ~(/\ pc[p] \in OpPcs /\ CurOp(p) = "recv" /\ Ctx(p) # "vel"
          /\ chan[Other(p)] # <<>>
          /\ absorbing[p] \/ RecvPacket(chan[Other(p)]).st = "wait")

\* ------------------------------------------------ the chat log on its own
\* lines appended to one log, at most
MaxMsgs == 104

\* the n-th line appended to the log (a one-character string)
Line(n) == <<n>>

\* chat_msgs before Connection::UpdateChat calls PrintChat: the line it
\* formatted (<<>>: the slot was empty) and the line it received (<<>>:
\* none) are pushed in this order
Pushed(msgs, fmt_msg, receiving_msg) ==
    LET own == IF fmt_msg # <<>> THEN Append(msgs, fmt_msg) ELSE msgs
    IN IF receiving_msg # <<>> THEN Append(own, receiving_msg) ELSE own

\* chat_msgs after one call of Connection::UpdateChat
UpdateChatLog(msgs, fmt_msg, receiving_msg) ==
    LET pushed == Pushed(msgs, fmt_msg, receiving_msg)
    IN IF Len(msgs) # Len(pushed) THEN PrintChat(pushed) ELSE pushed

\* Connection::Init leaves the log empty (it reserves 100 entries)
InitLog ==
    /\ Alone
    /\ bench = [fn |-> "UpdateChat", chat_msgs |-> <<>>, appended |-> 0,
                peak |-> 0, twice |-> FALSE]

\* one call of Connection::UpdateChat, seen from chat_msgs: own is whether
\* the slot held a line, got whether the peer's packet held one
UpdateChatCall ==
    /\ bench.fn = "UpdateChat"
    /\ \E own \in BOOLEAN, got \in BOOLEAN :
          LET n == bench.appended
              mine == IF own THEN n + 1 ELSE n
              total == IF got THEN mine + 1 ELSE mine
              fmt_msg == IF own THEN Line(mine) ELSE <<>>
              receiving_msg == IF got THEN Line(total) ELSE <<>>
          IN /\ total <= MaxMsgs
             /\ bench' = [bench EXCEPT
                             !.chat_msgs = UpdateChatLog(@, fmt_msg, receiving_msg),
                             !.appended = total,
                             !.peak = Len(Pushed(bench.chat_msgs, fmt_msg, receiving_msg)),
                             !.twice = @ \/ (own /\ got)]
    /\ UNCHANGED sessv

NextLog == UpdateChatCall

SpecLog == InitLog /\ [][NextLog]_vars

\* ------------------------------------------- update_velocities on its own
\* centres of the ball: beyond each wall with the whole box, across a wall,
\* touching the right paddle's left edge, and mid-field
BallCentres ==
    {<<x, y>> : x \in {-6000, -2000, 256000, 491750, 514000, 520000},
                y \in {-6000, -2000, 128000, 262000}}

\* centres of a paddle on the left or the right side: stopped beyond the top
\* wall, top edge on it, mid-field, bottom edge on the bottom wall, beyond it
PaddleCentres(right) ==
    {<<IF right THEN kWinWidth - kPaddleWidth \div 2 ELSE kPaddleWidth \div 2, y>> :
        y \in {22400, kPaddleHeight \div 2, kWinHeight \div 2,
               kWinHeight - kPaddleHeight \div 2, 233600}}

ShapeInputs ==
    {[ball |-> b, local |-> l, remote |-> r] :
        b \in BallCentres,
        l \in PaddleCentres(FALSE) \cup PaddleCentres(TRUE),
        r \in {c \in PaddleCentres(FALSE) \cup PaddleCentres(TRUE) :
                  c[2] \in {22400, kWinHeight \div 2, 233600}}}

VelocityInputs ==
    {[ball |-> <<bx, by>>, local |-> l, remote |-> r] :
        bx \in {-kBallVelocity, 0, kBallVelocity},
        by \in {-(kBallVelocity \div 4), 0, kBallVelocity \div 4},
        l \in {-kPaddleVelocity, 0, kPaddleVelocity},
        r \in {0, kPaddleVelocity}}

InitVel ==
    /\ Alone
    /\ \E shapes \in ShapeInputs, v \in VelocityInputs :
          bench = [fn |-> "update_velocities", positions |-> update_positions(shapes),
                   velocities |-> v, result |-> v, applied |-> FALSE]

\* main's call update_velocities(positions, &velocities)
ApplyVelocities ==
    /\ bench.fn = "update_velocities" /\ ~bench.applied
    /\ bench' = [bench EXCEPT !.result = update_velocities(bench.positions, bench.velocities),
                              !.applied = TRUE]
    /\ UNCHANGED sessv

NextVel == ApplyVelocities

SpecVel == InitVel /\ [][NextVel]_vars

\* ------------------------------------------ the ball in an empty field
\* frames of the ball's flight that are followed
MaxBallFrames == 10000

\* the shapes with both paddles stopped at the wall the ball is farther
\* from, where it cannot touch them
PaddlesAway(shapes) ==
    LET y == IF shapes.ball[2] >= kWinHeight \div 2 THEN 22400 ELSE 233600
    IN [shapes EXCEPT !.local = <<@[1], y>>, !.remote = <<@[1], y>>]

\* the walls the ball's box is beyond
WallsBeyond(ballpos) ==
    {w \in {"left", "right", "top", "bottom"} :
        \/ w = "left" /\ ballpos.left < 0
        \/ w = "right" /\ ballpos.right > kWinWidth
        \/ w = "top" /\ ballpos.top < 0
        \/ w = "bottom" /\ ballpos.bottom > kWinHeight}

InitBall ==
    /\ Alone
    /\ bench = [fn |-> "ball", shapes |-> InitShapes(TRUE), velocities |-> InitVelocities,
                frames |-> 0, beyond |-> {}, stayed |-> FALSE]

\* one iteration of main's loop with no key event and no paddle in the
\* ball's way: update_positions, update_velocities, update_shapes
BallFrame ==
    /\ bench.fn = "ball"
    /\ bench.frames < MaxBallFrames
    /\ LET shapes == PaddlesAway(bench.shapes)
           positions == update_positions(shapes)
           v == update_velocities(positions, bench.velocities)
           beyond == WallsBeyond(positions.ball)
       IN /\ ~collided(positions.ball, positions.local)
          /\ ~collided(positions.ball, positions.remote)
          /\ bench' = [bench EXCEPT !.shapes = update_shapes(v, shapes),
                                    !.velocities = v,
                                    !.frames = @ + 1,
                                    !.beyond = beyond,
                                    !.stayed = @ \/ (bench.beyond # {} /\ beyond # {})]
    /\ UNCHANGED sessv

NextBall == BallFrame

SpecBall == InitBall /\ [][NextBall]_vars

\* --------------------------------------------- one string over the wire
\* a nickname typed at the prompt (never empty) or the content of the
\* sending_msg slot when UpdateChat runs (<<>>: no line), up to two bytes
\* over the cap; a chat line is sent under a nickname of 1 or 10 bytes
WireInputs ==
    {[kind |-> "nick", nick |-> <<>>, entered |-> Chars(n)] : n \in 1..(kNickCap + 2)}
    \cup {[kind |-> "line", nick |-> nick, entered |-> Chars(n)] :
             nick \in {<<83>>, Chars(kNickCap)}, n \in 0..(kMsgCap + 2)}

InitWire ==
    /\ Alone
    /\ \E i \in WireInputs :
          bench = [fn |-> "wire", kind |-> i.kind, nick |-> i.nick, entered |-> i.entered,
                   cut |-> <<>>, encoded |-> <<>>, decoded |-> <<>>, left |-> 0,
                   applied |-> FALSE]

\* the peer's socket.receive(packet) and packet >> string on what
\* socket.send(send_pack) put on the wire
Delivered(packet) ==
    LET stream == WireOfPacket(packet, 0)
        r == RecvPacket(stream)
    IN [string |-> IF r.st = "done" THEN StringOfPacket(r.data) ELSE <<>>,
        left |-> Len(stream) - r.n]

\* Connection::Init from the resize of local_nick to the peer's remote_nick
NickOverWire ==
    /\ bench.fn = "wire" /\ bench.kind = "nick" /\ ~bench.applied
    /\ LET nick == Resize(bench.entered, kNickCap)
           got == Delivered(PacketOfString(nick, 0))
       IN bench' = [bench EXCEPT !.cut = nick, !.encoded = nick, !.decoded = got.string,
                                 !.left = got.left, !.applied = TRUE]
    /\ UNCHANGED sessv

\* Connection::UpdateChat from the slot to the peer's receiving_msg
LineOverWire ==
    /\ bench.fn = "wire" /\ bench.kind = "line" /\ ~bench.applied
    /\ LET msg == Resize(bench.entered, kMsgCap)
           fmt_msg == IF bench.entered # <<>> THEN FmtMsg(bench.nick, msg) ELSE <<>>
           packet == IF bench.entered # <<>> THEN PacketOfString(fmt_msg, 0)
                     ELSE EmptyPacket
           got == Delivered(packet)
       IN bench' = [bench EXCEPT !.cut = msg, !.encoded = fmt_msg, !.decoded = got.string,
                                 !.left = got.left, !.applied = TRUE]
    /\ UNCHANGED sessv

NextWire == NickOverWire \/ LineOverWire

SpecWire == InitWire /\ [][NextWire]_vars

\* ------------------------------------ the game of two peers, frame by frame
\* frames both peers have played, without a paddle in the ball's way, when
\* the game is taken up; and frames followed from there
FreeFrames == 92
MaxGameFrames == 6

\* the heights a paddle's centre can have: mid-field, and every step of
\* kPaddleVelocity from a height at which update_velocities did not stop it
PaddleHeights ==
    LET mid == kWinHeight \div 2
        half == kPaddleHeight \div 2
    IN {y \in {mid + k * kPaddleVelocity : k \in -20..20} :
           \/ y = mid
           \/ y < mid /\ (y + kPaddleVelocity) - half > 0
           \/ y > mid /\ (y - kPaddleVelocity) + half < kWinHeight}

\* the ball after n frames in which it met neither a paddle nor a wall
BallAfter(n) ==
    <<kWinWidth \div 2 + n * InitVelocities.ball[1],
      kWinHeight \div 2 + n * InitVelocities.ball[2]>>

\* an exchange that leaves velocities.remote as it was
ExchangedNothing(mine, theirs) == mine

\* Exchange(velocities.local, &velocities.remote) returning true
Exchanged(mine, theirs) == [mine EXCEPT !.remote = theirs.local]

\* both peers after FreeFrames frames: the paddles wherever the keys have
\* taken them, no key down, the ball on its first flight
InitGame ==
    /\ Alone
    /\ \E ys \in PaddleHeights, yc \in PaddleHeights :
          LET s == InitShapes(TRUE)
              c == InitShapes(FALSE)
          IN bench = [fn |-> "game", frames |-> 0,
                      shp |-> [srv |-> [ball |-> BallAfter(FreeFrames),
                                        local |-> <<s.local[1], ys>>,
                                        remote |-> <<s.remote[1], yc>>],
                               cli |-> [ball |-> BallAfter(FreeFrames),
                                        local |-> <<c.local[1], yc>>,
                                        remote |-> <<c.remote[1], ys>>]],
                      vel |-> [q \in Procs |-> InitVelocities],
                      hit |-> FALSE, stopped |-> FALSE, pushed |-> FALSE]

\* a paddle at a wall has moved further out
PushedOut(before, after) ==
    \/ before[2] - kPaddleHeight \div 2 <= 0 /\ after[2] < before[2]
    \/ before[2] + kPaddleHeight \div 2 >= kWinHeight /\ after[2] > before[2]

\* one iteration of main's loop in both processes, every exchange
\* succeeding: the key events, update_positions, update_velocities, the
\* exchange of the local velocities, update_shapes
GameFrame ==
    /\ bench.fn = "game"
    /\ bench.frames < MaxGameFrames
    /\ \E es \in {"none", "W", "S", "release"}, ec \in {"none", "W", "S", "release"} :
          LET ev == [srv |-> es, cli |-> ec]
              keyed == [q \in Procs |-> Polled(ev[q], bench.vel[q])]
              positions == [q \in Procs |-> update_positions(bench.shp[q])]
              updated == [q \in Procs |-> update_velocities(positions[q], keyed[q])]
              v == [q \in Procs |-> Exchanged(updated[q], updated[Other(q)])]
              shapes == [q \in Procs |-> update_shapes(v[q], bench.shp[q])]
          IN bench' = [bench EXCEPT
                          !.frames = @ + 1,
                          !.vel = v,
                          !.shp = shapes,
                          !.hit = @ \/ \E q \in Procs :
                                     \/ collided(positions[q].ball, positions[q].local)
                                     \/ collided(positions[q].ball, positions[q].remote),
                          !.stopped = @ \/ \E q \in Procs :
                                         keyed[q].local # 0 /\ updated[q].local = 0,
                          !.pushed = @ \/ \E q \in Procs :
                                        \/ PushedOut(bench.shp[q].local, shapes[q].local)
                                        \/ PushedOut(bench.shp[q].remote, shapes[q].remote)]
    /\ UNCHANGED sessv

NextGame == GameFrame

SpecGame == InitGame /\ [][NextGame]_vars

\* =============================================================== claims
\* p is inside a socket operation that cannot complete as things stand
Blocked(p) ==
    /\ pc[p] \in OpPcs /\ ~closed[Other(p)]
    /\ \/ wait[p] /\ chan[p] # <<>>
       \/ /\ CurOp(p) = "recv" /\ ~wait[p]
          /\ \/ absorbing[p]
             \/ Ctx(p) = "vel" /\ RecvFloat(chan[Other(p)]).st = "wait"
             \/ Ctx(p) # "vel" /\ RecvPacket(chan[Other(p)]).st = "wait"

\* both peers are inside the same exchange: the handshake, or the chat or
\* the velocity exchange of the same frame
SameRound ==
    /\ Ctx("srv") # "none" /\ Ctx("srv") = Ctx("cli")
    /\ frame["srv"] = frame["cli"]

NoneFailed == \A p \in Procs : ~failed[p]

\* C1: while the server and the client are inside the same exchange round,
\* there is no state in which both are blocked, whether sends are buffered
\* or block until the peer has received, and whoever calls first.
C1_NoMutualBlock == SameRound => ~(Blocked("srv") /\ Blocked("cli"))

\* the same for rounds before which no per-frame operation has failed
C1_WhenNoneFailed == NoneFailed => C1_NoMutualBlock

\* a round with blocking sends that both peers have completed
C1_Witness ==
    /\ sync /\ frame["srv"] = 1 /\ frame["cli"] = 1
    /\ \A p \in Procs : pc[p] = "veldone" /\ res[p] /\ Len(xlog[p]) = 2

\* C2: after a frame's velocity exchange that returned true, the peer's
\* velocities.remote is the value the other peer passed to the velocity
\* exchange of the same frame, and it was received from that very send.
C2_SameFrameValue ==
    \A p \in Procs :
        pc[p] = "veldone" /\ res[p] =>
            /\ gotv[p] # <<>>
            /\ gotv[p][Len(gotv[p])].frame = frame[p]
            /\ gotv[p][Len(gotv[p])].from = [k |-> "f32", f |-> frame[p]]
            /\ Len(sentv[Other(p)]) >= frame[p]
            /\ vel[p].remote = sentv[Other(p)][frame[p]]

\* the same for sessions in which no per-frame operation has failed
C2_WhenNoneFailed == NoneFailed => C2_SameFrameValue

\* C3: in every exchange the server sends and then receives, the client
\* receives and then sends; the role is the one the mode argument gave in
\* Connection::Init for as long as the process runs.
C3_RoleOrder ==
    \A p \in Procs :
        arg[p] \in {"-server", "-client"} =>
            /\ is_server[p] = (arg[p] = "-server")
            /\ \/ xlog[p] = <<>>
               \/ /\ Len(xlog[p]) <= 2
                  /\ xlog[p][1] = (IF arg[p] = "-server" THEN "send" ELSE "recv")
                  /\ Len(xlog[p]) = 2 =>
                        xlog[p][2] = (IF arg[p] = "-server" THEN "recv" ELSE "send")

\* both peers have done both operations of a frame's velocity exchange
C3_Witness ==
    /\ pc["srv"] = "veldone" /\ xlog["srv"] = <<"send", "recv">>
    /\ pc["cli"] = "veldone" /\ xlog["cli"] = <<"recv", "send">>

\* C4: once an operation of a per-frame exchange has returned a status
\* other than Done, the process begins no further exchange.
C4_FailureIsFatal == \A p \in Procs : ~exAfter[p]

\* C5: the nickname exchange happens before any frame and before the
\* thread exists; a process that goes on has the peer's truncated
\* nickname; a process whose nickname exchange failed exits with failure
\* without entering the loop or starting the thread.
C5_Handshake ==
    \A p \in Procs :
        /\ pc[p] \in {"hs1", "hs2", "hsdone"} =>
              frame[p] = 0 /\ tpc[p] = "none" /\ ~is_running[p]
        /\ frame[p] > 0 \/ tpc[p] # "none" \/ pc[p] = "loop" =>
              /\ remote_nick[p] = local_nick[Other(p)]
              /\ Len(remote_nick[p]) <= kNickCap
        /\ frame[p] = 0 /\ status[p] # "Done" /\ pc[p] \notin {"hs1", "hs2", "hsdone"} =>
              /\ pc[p] = "exited" /\ exitCode[p] = "FAILURE"
              /\ tpc[p] = "none" /\ ~is_running[p]

\* both peers are in the loop and the client holds a nickname cut to the cap
C5_Witness ==
    /\ frame["srv"] > 0 /\ frame["cli"] > 0
    /\ Len(remote_nick["cli"]) = kNickCap
    /\ remote_nick["srv"] = <<67, 76>>

\* C6: a process one of whose per-frame operations has failed does not go
\* on with its frame: it leaves the loop.
C6_LoopBreaks == \A p \in Procs : ~frAfter[p]

\* C7 as stated: a process that met a transport error in the loop exits
\* with failure.
C7_Original ==
    \A p \in Procs : pc[p] = "exited" /\ failed[p] => exitCode[p] = "FAILURE"

\* C7 as the code has it: the exit code is success whenever the frame
\* loop was entered, whether the window was closed or the velocity
\* exchange failed, and failure when the arguments, listen, accept,
\* connect or the nickname exchange failed.
C7_Amended ==
    \A p \in Procs :
        pc[p] = "exited" =>
            /\ cause[p] \in {"window", "transport"} =>
                  exitCode[p] = "SUCCESS" /\ frame[p] > 0
            /\ cause[p] \in {"usage", "argument", "listen", "accept", "connect",
                             "handshake"} =>
                  exitCode[p] = "FAILURE" /\ frame[p] = 0
            /\ cause[p] # "none"
            /\ cause[p] = "transport" => failed[p]

\* a process has left the loop on a failed velocity exchange and exited
C7_Witness ==
    \E p \in Procs :
        pc[p] = "exited" /\ cause[p] = "transport" /\ exitCode[p] = "SUCCESS"

TakenLines(p) == [i \in 1..Len(takenLog[p]) |-> takenLog[p][i].line]

RECURSIVE Unread(_)
\* the non-blank lines waiting on a console
Unread(q) ==
    IF q = <<>> THEN <<>>
    ELSE (IF IsBlank(Head(q).s) THEN <<>> ELSE <<Head(q).s>>) \o Unread(Tail(q))

\* C8 as stated: no line typed while a line was pending is ever taken for
\* transmission.
C8_Original ==
    \A p \in Procs : \A i \in 1..Len(takenLog[p]) : ~takenLog[p][i].late

\* C8 as the code has it: the thread stores a line only into an empty
\* slot and reads the console only then, so the non-blank lines typed are
\* exactly, in order, the lines taken for transmission, the line in the
\* slot and the lines still unread on the console: none is dropped.
C8_Amended ==
    \A p \in Procs :
        typedLog[p] = TakenLines(p)
                      \o (IF sending_msg[p] = <<>> THEN <<>> ELSE <<sending_msg[p]>>)
                      \o Unread(stdin[p])

\* a line typed while a line was pending has been taken in the next frame
C8_Witness ==
    \E p \in Procs :
        /\ Len(takenLog[p]) = 2
        /\ takenLog[p][2].late /\ takenLog[p][2].frame = 2

\* C9: when UpdateChat's exchange has returned in a call that took a line
\* from the slot, the packet with the line has been passed to socket.send.
C9_HandedBeforeCleared ==
    \A p \in Procs :
        /\ pc[p] = "chatdone"
        /\ takenLog[p] # <<>>
        /\ takenLog[p][Len(takenLog[p])].frame = frame[p]
        => handed[p]

\* p has finished UpdateChat in its frame k
PastChat(p, k) ==
    \/ frame[p] > k
    \/ frame[p] = k /\ pc[p] \notin {"uc", "chat1", "chat2", "chatdone"}

\* C10: every line a peer appends from the other was taken by the other
\* in the same frame and is its tagged text, at most one per frame; and a
\* line taken in frame k whose chat exchange returned true is in the
\* other peer's log once that peer has finished UpdateChat in frame k.
C10_ExactlyOnce ==
    \A p \in Procs :
        /\ \A j \in 1..Len(recvLog[p]) :
              /\ \E i \in 1..Len(takenLog[Other(p)]) :
                    /\ takenLog[Other(p)][i].frame = recvLog[p][j].frame
                    /\ takenLog[Other(p)][i].fmt = recvLog[p][j].msg
              /\ recvLog[p][j].from = recvLog[p][j].frame
              /\ j > 1 => recvLog[p][j - 1].frame < recvLog[p][j].frame
        /\ \A i \in 1..Len(takenLog[p]) :
              takenLog[p][i].sent = "ok" /\ PastChat(Other(p), takenLog[p][i].frame) =>
                  \E j \in 1..Len(recvLog[Other(p)]) :
                      /\ recvLog[Other(p)][j].frame = takenLog[p][i].frame
                      /\ recvLog[Other(p)][j].msg = takenLog[p][i].fmt

\* the same for sessions in which no per-frame operation has failed
C10_WhenNoneFailed == NoneFailed => C10_ExactlyOnce

\* the log holds the lines numbered from..to, in this order
IsWindow(log, from, to) ==
    /\ Len(log) = to - from + 1
    /\ \A i \in 1..Len(log) : log[i] = Line(from + i - 1)

\* C11: after any sequence of UpdateChat calls the log is the most recent
\* lines appended so far, without a gap and in the order of arrival; also
\* when a call appended a local and a received line before the truncation
C11_RecentWindow ==
    bench.fn = "UpdateChat" =>
        IsWindow(bench.chat_msgs, bench.appended - Len(bench.chat_msgs) + 1, bench.appended)

\* the same when every call appended one line at most
C11_WhenOneAtATime == bench.fn = "UpdateChat" /\ ~bench.twice => C11_RecentWindow

\* C12: appending one line per call, the log holds every line until the
\* 100th arrives, then the lines 81.. up to the newest (21 lines after the
\* 101st), in order; and it never holds more than 100 lines
C12_Retention ==
    bench.fn = "UpdateChat" =>
        /\ Len(bench.chat_msgs) <= kChatMax
        /\ ~bench.twice =>
              /\ bench.peak <= kChatMax
              /\ bench.appended < kChatMax => IsWindow(bench.chat_msgs, 1, bench.appended)
              /\ bench.appended >= kChatMax /\ bench.appended < kChatMax + kChatFrom =>
                    IsWindow(bench.chat_msgs, kChatFrom + 1, bench.appended)

C12_Witness ==
    /\ bench.fn = "UpdateChat" /\ ~bench.twice
    /\ bench.appended = kChatMax + 1
    /\ Len(bench.chat_msgs) = kChatKeep + 1

\* the ball's box and a paddle's box overlap on both axes
Overlap(ball, paddle) ==
    /\ ball.right >= paddle.left /\ ball.left <= paddle.right
    /\ ball.bottom >= paddle.top /\ ball.top <= paddle.bottom

Hit == Overlap(bench.positions.ball, bench.positions.local)
           \/ Overlap(bench.positions.ball, bench.positions.remote)

Applied == bench.fn = "update_velocities" /\ bench.applied

\* C13: when the ball overlaps a paddle, or both, one update_velocities call
\* negates the ball's horizontal velocity once and leaves its vertical
\* velocity as it was, also for a ball beyond a wall
C13_PaddleBounce ==
    Applied /\ Hit =>
        bench.result.ball = <<-bench.velocities.ball[1], bench.velocities.ball[2]>>

C13_Witness ==
    /\ Applied
    /\ Overlap(bench.positions.ball, bench.positions.local)
    /\ Overlap(bench.positions.ball, bench.positions.remote)
    /\ bench.positions.ball.top < 0
    /\ bench.velocities.ball = <<-kBallVelocity, -(kBallVelocity \div 4)>>
    /\ bench.result.ball = <<kBallVelocity, -(kBallVelocity \div 4)>>

\* C14 as stated: a ball whose box is beyond a wall has, after one call, a
\* velocity that points back into the field on that axis, whatever the
\* incoming velocity
C14_Original ==
    Applied =>
        /\ bench.positions.ball.right < 0 => bench.result.ball[1] > 0
        /\ bench.positions.ball.left > kWinWidth => bench.result.ball[1] < 0
        /\ bench.positions.ball.bottom < 0 => bench.result.ball[2] > 0
        /\ bench.positions.ball.top > kWinHeight => bench.result.ball[2] < 0

\* C14 amended: the same for a ball that overlaps no paddle and a velocity
\* that is not zero on that axis; a box across a wall counts as beyond it, and
\* each axis is decided on its own
C14_Amended ==
    Applied /\ ~Hit =>
        LET ball == bench.positions.ball
            in == bench.velocities.ball
            out == bench.result.ball
        IN /\ ball.left < 0 /\ in[1] # 0 => out[1] > 0
           /\ ball.left >= 0 /\ ball.right > kWinWidth /\ in[1] # 0 => out[1] < 0
           /\ ball.top < 0 /\ in[2] # 0 => out[2] > 0
           /\ ball.top >= 0 /\ ball.bottom > kWinHeight /\ in[2] # 0 => out[2] < 0
           /\ Abs(out[1]) = Abs(in[1]) /\ Abs(out[2]) = Abs(in[2])

\* a ball beyond the left and the top wall, moving outwards on both axes
C14_Witness ==
    /\ Applied /\ ~Hit
    /\ bench.positions.ball.left < 0 /\ bench.positions.ball.top < 0
    /\ bench.velocities.ball = <<-kBallVelocity, -(kBallVelocity \div 4)>>
    /\ bench.result.ball = <<kBallVelocity, kBallVelocity \div 4>>

C16_BallStaysInField ==
    bench.fn = "ball" =>
        /\ bench.shapes.ball[1] >= 0 /\ bench.shapes.ball[1] <= kWinWidth
        /\ bench.shapes.ball[2] >= 0 /\ bench.shapes.ball[2] <= kWinHeight
        /\ ~bench.stayed

\* the 10,000th frame is done and the ball has just been across a wall
C16_Witness ==
    /\ bench.fn = "ball"
    /\ bench.frames = 10000
    /\ bench.velocities.ball # InitVelocities.ball

\* t is the first n elements of s, or all of s if it has no more than n
IsPrefixUpTo(t, s, n) ==
    /\ Len(t) = IF Len(s) > n THEN n ELSE Len(s)
    /\ \A i \in 1..Len(t) : t[i] = s[i]

\* C17: a nickname is cut to its first 10 bytes and a chat line to its first
\* 50 bytes, shorter ones are kept as entered; the cut line is what is
\* formatted; and the string the receiver decodes is the string the sender
\* put into the packet, with nothing left on the wire
C17_CutAndRoundTrip ==
    bench.fn = "wire" /\ bench.applied =>
        /\ IsPrefixUpTo(bench.cut, bench.entered,
                        IF bench.kind = "nick" THEN kNickCap ELSE kMsgCap)
        /\ bench.kind = "nick" => bench.encoded = bench.cut
        /\ bench.kind = "line" /\ bench.entered # <<>> =>
              bench.encoded = bench.nick \o <<58, 62, 32>> \o bench.cut
        /\ bench.kind = "line" /\ bench.entered = <<>> => bench.encoded = <<>>
        /\ bench.decoded = bench.encoded
        /\ bench.left = 0

\* a line of 51 bytes has gone over the wire and arrived as nick, ":> " and
\* its first 50 bytes
C17_Witness ==
    /\ bench.fn = "wire" /\ bench.applied /\ bench.kind = "line"
    /\ Len(bench.entered) = kMsgCap + 1
    /\ Len(bench.decoded) = Len(bench.nick) + 3 + kMsgCap
    /\ bench.decoded[Len(bench.decoded)] = bench.entered[kMsgCap]

\* in a session, also after a chat exchange that failed: every line a process
\* has appended from its peer is a line its peer formatted
C17_InSession ==
    \A p \in Procs : \A i \in 1..Len(recvLog[p]) :
        \E j \in 1..Len(takenLog[Other(p)]) :
            takenLog[Other(p)][j].fmt = recvLog[p][i].msg

\* the box of a paddle centred at c is within one paddle step of the screen
WithinAStep(c) ==
    /\ c[2] - kPaddleHeight \div 2 >= -kPaddleVelocity
    /\ c[2] + kPaddleHeight \div 2 <= kWinHeight + kPaddleVelocity

\* C18: whatever the keys, a paddle whose top edge is at or above y=0 is not
\* moved further up and one whose bottom edge is at or below y=256 is not
\* moved further down, so its box is never more than 8.8 beyond the screen;
\* this holds for the local paddle and for the remote paddle each peer draws
C18_PaddlesKeptAtWalls ==
    bench.fn = "game" =>
        /\ ~bench.pushed
        /\ \A q \in Procs :
              WithinAStep(bench.shp[q].local) /\ WithinAStep(bench.shp[q].remote)

\* a peer held W with its paddle past the top wall: its velocity was set
\* to 0 and the paddle is where it was, 7.6 above the screen, on both peers
C18_Witness ==
    /\ bench.fn = "game" /\ bench.stopped
    /\ bench.shp["cli"].local[2] - kPaddleHeight \div 2 = -7600
    /\ bench.shp["srv"].remote[2] - kPaddleHeight \div 2 = -7600
    /\ bench.vel["cli"].local = 0

\* C20: with every exchange succeeding, after each frame both peers have
\* completed each peer's local paddle is where the other draws its remote
\* paddle, and the ball's position and velocity are the same on both
C20_Replicas ==
    bench.fn = "game" =>
        /\ bench.shp["srv"].local = bench.shp["cli"].remote
        /\ bench.shp["cli"].local = bench.shp["srv"].remote
        /\ bench.shp["srv"].ball = bench.shp["cli"].ball
        /\ bench.vel["srv"].ball = bench.vel["cli"].ball

\* the ball has bounced off a paddle, both paddles have left mid-field and
\* the frames are played out
C20_Witness ==
    /\ bench.fn = "game" /\ bench.hit /\ bench.frames = MaxGameFrames
    /\ bench.vel["srv"].ball[1] < 0
    /\ bench.shp["srv"].local[2] # kWinHeight \div 2
    /\ bench.shp["cli"].local[2] # kWinHeight \div 2
    /\ bench.vel["srv"].local # 0 /\ bench.vel["cli"].local # 0

\* the same in a session of two processes, for the frames it follows: when
\* both processes have completed the same number of frames and no socket
\* call of theirs has failed
C20_InSession ==
    /\ NoneFailed
    /\ pc["srv"] \in {"loop", "exited"} /\ pc["cli"] \in {"loop", "exited"}
    /\ frame["srv"] = frame["cli"] /\ frame["srv"] > 0
    => /\ shp["srv"].local = shp["cli"].remote
       /\ shp["cli"].local = shp["srv"].remote
       /\ shp["srv"].ball = shp["cli"].ball
       /\ vel["srv"].ball = vel["cli"].ball

\* C19: a process whose window has handled the Closed event reaches exit:
\* it completes the frame, starts no further one and returns from main
C19_Terminates == \A p \in Procs : (~window[p]) ~> (pc[p] = "exited")

\* the same as long as no socket call of a per-frame exchange has failed
C19_WhenNoneFailed ==
    \A p \in Procs : (~window[p]) ~> (pc[p] = "exited" \/ ~NoneFailed)

\* once the window is closed no further frame is begun
C19_NoFurtherFrame ==
    [][\A p \in Procs : ~window[p] => frame'[p] = frame[p]]_vars

\* Connection::Close returns whatever the thread is doing: no state has a
\* process in Close that cannot take the step
C19_CloseNeverWaits == \A p \in Procs : pc[p] = "close" => ENABLED Close(p)

\* the exchanges of a frame
FrameCtxs == IF rev = "src" THEN {"chat", "vel"} ELSE {"vel"}

\* a socket.receive of p in exchange ctx of frame k has returned Done
Received(p, ctx, k) ==
    \E i \in 1..Len(takeLog[p]) : takeLog[p][i] = [ctx |-> ctx, frame |-> k]

\* p has called socket.send in exchange ctx of frame k
SendCalled(p, ctx, k) ==
    \E i \in 1..Len(sendLog[p]) : sendLog[p][i] = [ctx |-> ctx, frame |-> k]

\* p has completed frame k
Completed(p, k) == k >= 1 /\ (frame[p] > k \/ (frame[p] = k /\ pc[p] = "loop"))

\* C21: the frame counters of the two peers differ by one at most; the
\* server does not complete frame k, and no receive of frame k returns Done
\* on either side, before the peer has made the send of that exchange
C21_Lockstep ==
    /\ frame["srv"] - frame["cli"] \in {-1, 0, 1}
    /\ \A k \in 1..frame["srv"] :
          Completed("srv", k) => \A ctx \in FrameCtxs : SendCalled("cli", ctx, k)
    /\ \A p \in Procs : \A k \in 1..frame[p] : \A ctx \in FrameCtxs :
          Received(p, ctx, k) => SendCalled(Other(p), ctx, k)

\* the same as long as no socket call of a per-frame exchange has failed
C21_WhenNoneFailed == NoneFailed => C21_Lockstep

\* the first exchange of a frame
FirstCtx == IF rev = "src" THEN "chat" ELSE "vel"

\* the kind of message the next socket.receive of p is written to take:
\* "hs" a nickname packet, "chat" a chat packet, "vel" a raw velocity,
\* "none" when p is about to leave Init or the loop
Expects(p) ==
    CASE pc[p] \in {"start", "listen", "accept", "connect", "hs1"} -> "hs"
      [] pc[p] = "hs2" -> IF CurOp(p) = "recv" THEN "hs" ELSE FirstCtx
      [] pc[p] = "hsdone" -> IF InitReturns(p) THEN FirstCtx ELSE "none"
      [] pc[p] = "loop" -> IF window[p] THEN FirstCtx ELSE "none"
      [] pc[p] = "veldone" -> IF rev = "src" /\ ~res[p] THEN "none" ELSE FirstCtx
      [] pc[p] = "uc" -> FirstCtx
      [] pc[p] = "chat1" -> "chat"
      [] pc[p] = "chat2" -> IF CurOp(p) = "recv" THEN "chat" ELSE "vel"
      [] pc[p] \in {"chatdone", "vel1"} -> "vel"
      [] pc[p] = "vel2" -> IF CurOp(p) = "recv" THEN "vel" ELSE FirstCtx
      [] OTHER -> "none"

\* the kind of the message that starts with unit u: a packet's size header
\* sent in the handshake or in a frame, or a raw float; "part" if no message
\* starts with u
KindOf(u) ==
    CASE u.k = "hdr" /\ u.f = 0 -> "hs"
      [] u.k = "hdr" /\ u.f > 0 -> "chat"
      [] u.k = "f32" -> "vel"
      [] OTHER -> "part"

\* C22: in every state the oldest unconsumed unit a peer has sent starts a
\* message of the kind the other peer's next receive expects, and no
\* receive is reading a size the stream cannot fill
C22_FramingInStep ==
    \A p \in Procs :
        /\ ~absorbing[p]
        /\ Expects(p) # "none" /\ chan[Other(p)] # <<>> =>
              KindOf(Head(chan[Other(p)])) = Expects(p)

\* the same as long as no socket call of a per-frame exchange has failed
C22_WhenNoneFailed == NoneFailed => C22_FramingInStep

====
